---- MODULE Spec2Model ----
(***************************************************************************)
(* The desktop entry decoder of tal (src/src/apps.rs): ApplicationEntry's  *)
(* decode with its helpers lines, is_action, str_as_bool, decode_kv_hash   *)
(* and decode_finished, followed by Spawn::sys_exec on the decoded record;  *)
(* and the launcher of src/src/cli.rs: Installed::all over the three       *)
(* application directories and Spawn::run for each requested name.         *)
(*                                                                         *)
(* A Rust String is a sequence of characters, each character a one-element *)
(* TLA+ string; "U+00E9" stands for the character e-acute, which UTF-8     *)
(* encodes in two bytes. Option<T> is a sequence of length 0 (None) or     *)
(* 1 (Some).                                                               *)
(***************************************************************************)
EXTENDS Naturals, Sequences, FiniteSets

VARIABLES text, pc, ini_lines, idx, body, curr_act_name, h_acts, result, args,
          spawn_terminal, stdout, launches, dirs, input, pos

\* The decoder's and sys_exec's locals.
decodeVars == <<text, ini_lines, idx, body, curr_act_name, h_acts, result, args>>

\* The command line, the environment, the application directories and what the
\* launcher did: Spawn.terminal, Cli.output, one outcome per sys_exec or run, the
\* three roots, Cli.input and the position in it.
cliVars == <<spawn_terminal, stdout, launches, dirs, input, pos>>

vars == <<text, pc, ini_lines, idx, body, curr_act_name, h_acts, result, args,
          spawn_terminal, stdout, launches, dirs, input, pos>>

\* ---------------------------------------------------------------- bounds

\* Free lines appended to a prefix of an entry text.
MaxLines == 2
\* Length of the exec strings of the argument-vector specification.
MaxExecLen == 6

\* ---------------------------------------------------------------- Option

None == <<>>
Some(x) == <<x>>

\* ---------------------------------------------------------------- strings

NL == "\n"

\* Bytes of a character in UTF-8.
ByteLen(c) == IF c = "U+00E9" THEN 2 ELSE 1

\* The first index where pat occurs in s, 0 when it does not (str::find).
IndexOf(s, pat) ==
    LET hits == {i \in 1..(Len(s) + 1) : /\ i + Len(pat) - 1 <= Len(s)
                                        /\ SubSeq(s, i, i + Len(pat) - 1) = pat}
    IN  IF hits = {} THEN 0 ELSE CHOOSE i \in hits : \A j \in hits : i <= j

\* str::split_once: Some(<<left, right>>) around the first occurrence of pat.
split_once(s, pat) ==
    LET i == IndexOf(s, pat)
    IN  IF i = 0 THEN None
        ELSE Some(<<SubSeq(s, 1, i - 1), SubSeq(s, i + Len(pat), Len(s))>>)

\* str::split("\n"): the pieces between line feeds; "" gives one empty piece.
RECURSIVE split(_)
split(s) ==
    LET so == split_once(s, <<NL>>)
    IN  IF so = None THEN <<s>> ELSE <<so[1][1]>> \o split(so[1][2])

starts_with(s, c) == Len(s) > 0 /\ s[1] = c

Whitespace == {" ", "\t"}

\* str::split_whitespace: the maximal runs of non-whitespace characters.
RECURSIVE split_whitespace_from(_, _, _)
split_whitespace_from(s, i, cur) ==
    LET flush == IF cur = <<>> THEN <<>> ELSE <<cur>>
    IN  IF i > Len(s) THEN flush
        ELSE IF s[i] \in Whitespace
             THEN flush \o split_whitespace_from(s, i + 1, <<>>)
             ELSE split_whitespace_from(s, i + 1, Append(cur, s[i]))

split_whitespace(s) == split_whitespace_from(s, 1, <<>>)

\* ---------------------------------------------------------------- literals

header == <<"[", "D", "e", "s", "k", "t", "o", "p", " ", "E", "n", "t", "r", "y", "]">>
ActionPat == <<"A", "c", "t", "i", "o", "n", " ">>
K_Name == <<"N", "a", "m", "e">>
K_Exec == <<"E", "x", "e", "c">>
K_Terminal == <<"T", "e", "r", "m", "i", "n", "a", "l">>
K_NoDisplay == <<"N", "o", "D", "i", "s", "p", "l", "a", "y">>
S_true == <<"t", "r", "u", "e">>
S_True == <<"T", "r", "u", "e">>
S_false == <<"f", "a", "l", "s", "e">>
S_False == <<"F", "a", "l", "s", "e">>

\* The field codes Spawn::sys_exec drops.
Placeholders ==
    {<<"%", c>> : c \in {"f", "F", "u", "U", "d", "D", "n", "N", "k", "v", "m", "c", "i", "s"}}

\* ---------------------------------------------------------------- entry texts

L_NameA == <<"N", "a", "m", "e", "=", "A">>
L_NameB == <<"N", "a", "m", "e", "=", "B">>
L_ExecFirefox == <<"E", "x", "e", "c", "=", "f", "i", "r", "e", "f", "o", "x", " ", "%", "u", " ", "-", "-", "p", "r", "i", "v", "a", "t", "e">>
L_ExecG == <<"E", "x", "e", "c", "=", "g">>
L_ExecE == <<"E", "x", "e", "c", "=", "e">>
L_TermTrue == <<"T", "e", "r", "m", "i", "n", "a", "l", "=", "t", "r", "u", "e">>
L_TermUpper == <<"T", "e", "r", "m", "i", "n", "a", "l", "=", "T", "R", "U", "E">>
L_TermGarbage == <<"T", "e", "r", "m", "i", "n", "a", "l", "=", "x">>
L_TermFalse == <<"T", "e", "r", "m", "i", "n", "a", "l", "=", "F", "a", "l", "s", "e">>
L_NoDisplayTrue == <<"N", "o", "D", "i", "s", "p", "l", "a", "y", "=", "t", "r", "u", "e">>
L_NoDisplayCap == <<"N", "o", "D", "i", "s", "p", "l", "a", "y", "=", "T", "r", "u", "e">>
L_NoDisplayUpper == <<"N", "o", "D", "i", "s", "p", "l", "a", "y", "=", "T", "R", "U", "E">>
L_ActionA == <<"[", "D", "e", "s", "k", "t", "o", "p", " ", "A", "c", "t", "i", "o", "n", " ", "a", "]">>
L_Other == <<"[", "O", "t", "h", "e", "r", "]">>
L_ActionCut == <<"[", "D", "e", "s", "k", "t", "o", "p", " ", "A", "c", "t", "i", "o", "n", " ">>
L_NameActionGx == <<"N", "a", "m", "e", "=", "A", "c", "t", "i", "o", "n", " ", "G", "x">>
L_NameActionAccent == <<"N", "a", "m", "e", "=", "A", "c", "t", "i", "o", "n", " ", "U+00E9">>
L_Comment == <<"#", " ", "c">>
L_Icon == <<"I", "c", "o", "n", "=", "i">>
L_Empty == <<>>

\* The lines an entry text starts with.
Prefixes ==
    { <<>>,
      <<header>>,
      <<header, L_NameA, L_ExecFirefox>>,
      <<L_Comment, header, L_Empty, L_NameA, L_Comment, L_ExecE, L_Icon, L_TermFalse>>,
      <<L_NameA, header, L_NameA, L_ExecE>>,
      <<L_Comment>>,
      <<header, L_NameA, L_NoDisplayTrue, L_ExecE>>,
      <<header, L_NameActionAccent>>,
      <<header, L_NameA>>,
      <<header, L_NameA, L_ExecE, L_ActionA>> }

\* The lines that follow the prefix, in any order and number up to MaxLines.
Pool ==
    { L_NameB, L_ExecG, L_TermTrue, L_TermUpper, L_TermGarbage,
      L_NoDisplayCap, L_NoDisplayUpper, L_ActionA, L_Other, L_ActionCut,
      L_NameActionGx }

FreeLines == UNION {[1..n -> Pool] : n \in 0..MaxLines}

\* The lines joined by line feeds, as the file holds them.
RECURSIVE JoinLines(_)
JoinLines(ls) ==
    IF Len(ls) = 0 THEN <<>>
    ELSE IF Len(ls) = 1 THEN ls[1]
    ELSE ls[1] \o <<NL>> \o JoinLines(Tail(ls))

\* The entry texts Installed::to_inis hands to ApplicationEntry::new.
Texts == {JoinLines(p \o f) : p \in Prefixes, f \in FreeLines}

ExecAlphabet == {"f", "%", " ", "\t"}

ExecStrings == UNION {[1..n -> ExecAlphabet] : n \in 0..MaxExecLen}

\* Entry texts with a name and an arbitrary exec string.
ExecTexts ==
    {JoinLines(<<header, L_NameA, K_Exec \o <<"=">> \o e>>) : e \in ExecStrings}
        \cup {JoinLines(<<header, L_NameA, L_ExecFirefox>>)}

\* The lines of the entry files in the application directories.
L_NameSurf == <<"N", "a", "m", "e", "=", "S", "u", "r", "f">>
L_NameSurfLower == <<"N", "a", "m", "e", "=", "s", "u", "r", "f">>
L_NameSurfUpper == <<"N", "a", "m", "e", "=", "S", "U", "R", "F">>
L_NameTea == <<"N", "a", "m", "e", "=", "T", "e", "a">>
L_ExecF == <<"E", "x", "e", "c", "=", "f">>
L_ExecH == <<"E", "x", "e", "c", "=", "h">>
L_ExecFieldCode == <<"E", "x", "e", "c", "=", "%", "u">>

\* The entry files: a file to_inis cannot read or that is not UTF-8 is None.
F_Surf == Some(JoinLines(<<header, L_NameSurf, L_ExecF>>))
F_SurfTerminal == Some(JoinLines(<<header, L_NameSurfLower, L_ExecG, L_TermTrue>>))
F_SurfUpper == Some(JoinLines(<<header, L_NameSurfUpper, L_ExecH>>))
F_Tea == Some(JoinLines(<<header, L_NameTea, L_ExecFieldCode>>))
F_Hidden == Some(JoinLines(<<header, L_NameSurf, L_ExecE, L_NoDisplayTrue>>))
F_Cut == Some(JoinLines(<<header, L_ActionCut>>))
F_Unreadable == None

\* The .desktop files one application directory holds, in read_dir's order.
RootFiles ==
    { <<>>,
      <<F_Unreadable, F_Hidden, F_Surf>>,
      <<F_SurfTerminal>>,
      <<F_Tea, F_SurfUpper>>,
      <<F_Cut>> }

\* fs::read_dir of one root: None when it fails.
Roots == {None} \cup {Some(fs) : fs \in RootFiles}

\* Cli.input: the names asked for.
N_surf == <<"s", "u", "r", "f">>
N_SuRf == <<"S", "u", "R", "f">>
N_tea == <<"t", "e", "a">>
N_zed == <<"z", "e", "d">>

Batches ==
    { <<N_surf>>,
      <<N_zed, N_SuRf>>,
      <<N_tea, N_surf>>,
      <<N_surf, N_zed, N_tea>> }

\* ---------------------------------------------------------------- ApplicationEntry

\* ApplicationEntry::body: an accumulator with every field absent.
EmptyBody == [name |-> None, exec |-> None, terminal |-> None]

EmptyActions == [k \in {} |-> EmptyBody]

\* lines with the header looked for in any retained line (ini_lines.contains).
lines_any_header(t) ==
    LET kept == SelectSeq(split(t), LAMBDA line : ~starts_with(line, "#"))
    IN  IF \E i \in 1..Len(kept) : kept[i] = header THEN Some(kept) ELSE None

\* ApplicationEntry::lines: the lines that are no comments, when the first is the header.
lines(t) ==
    LET kept == SelectSeq(split(t), LAMBDA line : ~starts_with(line, "#"))
    IN  IF Len(kept) > 0 /\ kept[1] = header THEN Some(kept) ELSE None

\* is_action slices right[..right.len() - 1] by bytes: the subtraction underflows on
\* an empty right (a panic in a debug build, an out-of-range slice in a release
\* build), and an end inside a multi-byte character is no character boundary.
is_action_panics(line) ==
    LET so == split_once(line, ActionPat)
    IN  IF so = None THEN FALSE
        ELSE LET right == so[1][2]
             IN  IF Len(right) = 0 THEN TRUE ELSE ByteLen(right[Len(right)]) > 1

\* ApplicationEntry::is_action, where it does not panic.
is_action(line) ==
    LET so == split_once(line, ActionPat)
    IN  IF so = None THEN None
        ELSE Some(SubSeq(so[1][2], 1, Len(so[1][2]) - 1))

\* str_as_bool without the capitalized spellings.
str_as_bool_lower_only(s) ==
    IF s = S_false THEN FALSE
    ELSE IF s = S_true THEN TRUE
    ELSE FALSE

\* str_as_bool with the fallback arm giving true.
str_as_bool_default_true(s) ==
    IF s \in {S_False, S_false} THEN FALSE
    ELSE IF s \in {S_True, S_true} THEN TRUE
    ELSE TRUE

\* ApplicationEntry::str_as_bool.
str_as_bool(s) ==
    IF s \in {S_False, S_false} THEN FALSE
    ELSE IF s \in {S_True, S_true} THEN TRUE
    ELSE FALSE

\* decode_finished keeping only the actions that have a name.
decode_finished_named_actions(b, actions) ==
    LET terminal == IF b.terminal = None THEN Some(FALSE) ELSE b.terminal
        named == {a \in DOMAIN actions : actions[a].name # None}
    IN  IF b.name # None /\ b.exec # None /\ terminal # None
        THEN Some([name |-> b.name[1], exec |-> b.exec[1],
                   terminal |-> terminal[1], actions |-> [a \in named |-> actions[a]]])
        ELSE None

\* ApplicationEntry::decode_finished.
decode_finished(b, actions) ==
    LET terminal == IF b.terminal = None THEN Some(FALSE) ELSE b.terminal
    IN  IF b.name # None /\ b.exec # None /\ terminal # None
        THEN Some([name |-> b.name[1], exec |-> b.exec[1],
                   terminal |-> terminal[1], actions |-> actions])
        ELSE None

\* ApplicationEntry::decode_kv_hash: the action after the line.
decode_kv_hash(line, action) ==
    LET kv == split_once(line, <<"=">>)
    IN  IF kv = None THEN action
        ELSE LET act_field_key == kv[1][1]
                 act_field_val == kv[1][2]
             IN  IF act_field_key = K_Name
                     THEN [action EXCEPT !.name = Some(act_field_val)]
                 ELSE IF act_field_key = K_Exec
                     THEN [action EXCEPT !.exec = Some(act_field_val)]
                 ELSE IF act_field_key = K_Terminal
                     THEN [action EXCEPT !.terminal = Some(str_as_bool(act_field_val))]
                 ELSE action

\* The match of decode on a base-section key: the accumulator after the line.
base_field(b, field_key, field_val) ==
    IF field_key = K_Name THEN [b EXCEPT !.name = Some(field_val)]
    ELSE IF field_key = K_Exec THEN [b EXCEPT !.exec = Some(field_val)]
    ELSE IF field_key = K_Terminal THEN [b EXCEPT !.terminal = Some(str_as_bool(field_val))]
    ELSE b

\* The NoDisplay arm of decode's match: the line makes decode return None.
base_returns_none(field_key, field_val) ==
    field_key = K_NoDisplay /\ str_as_bool(field_val)

\* HashMap::insert of a fresh accumulator.
insert_body(acts, act) ==
    [k \in (DOMAIN acts) \cup {act} |-> IF k = act THEN EmptyBody ELSE acts[k]]

\* HashMap::entry(..).and_modify(decode_kv_hash).
and_modify(acts, act_name, line) ==
    IF act_name \in DOMAIN acts
    THEN [acts EXCEPT ![act_name] = decode_kv_hash(line, @)]
    ELSE acts

\* What a call came to: a value returned, or a panic.
Returned(v) == [kind |-> "Ok", val |-> v]
Panicked == [kind |-> "Panic", val |-> None]

\* One pass of decode's loop on a line: the accumulators after it, and whether
\* the loop goes on, decode returns None or is_action panics.
decode_line(st, line) ==
    IF is_action_panics(line) THEN [st EXCEPT !.at = "panic"]
    ELSE LET act == is_action(line)
             kv == split_once(line, <<"=">>)
         IN  IF act # None
             THEN [st EXCEPT !.cur = act, !.acts = insert_body(st.acts, act[1])]
             ELSE IF st.cur # None
             THEN [st EXCEPT !.acts = and_modify(st.acts, st.cur[1], line)]
             ELSE IF kv = None THEN st
             ELSE IF base_returns_none(kv[1][1], kv[1][2]) THEN [st EXCEPT !.at = "none"]
             ELSE [st EXCEPT !.b = base_field(st.b, kv[1][1], kv[1][2])]

\* The loop of ApplicationEntry::decode from line i on.
RECURSIVE decode_from(_, _, _)
decode_from(ls, i, st) ==
    IF i > Len(ls) \/ st.at # "loop" THEN st
    ELSE decode_from(ls, i + 1, decode_line(st, ls[i]))

\* ApplicationEntry::decode as one call.
decode(t) ==
    LET got == lines(t)
    IN  IF got = None THEN Returned(None)
        ELSE LET st == decode_from(got[1], 1,
                           [b |-> EmptyBody, cur |-> None, acts |-> EmptyActions,
                            at |-> "loop"])
             IN  IF st.at = "panic" THEN Panicked
                 ELSE IF st.at = "none" THEN Returned(None)
                 ELSE Returned(decode_finished(st.b, st.acts))

\* ---------------------------------------------------------------- Spawn

\* sys_exec's filter dropping every token that starts with a percent sign.
sys_exec_args_drop_percent(exec) ==
    SelectSeq(split_whitespace(exec), LAMBDA s : s[1] # "%")

\* The argument vector sys_exec collects from app.exec.
sys_exec_args(exec) ==
    SelectSeq(split_whitespace(exec), LAMBDA s : s \notin Placeholders)

DashE == <<"-", "e">>
Kitty == <<"k", "i", "t", "t", "y">>

\* env::var("TERMINAL").ok(): unset, or the terminal emulator's program.
TerminalEnv == {None, Some(Kitty)}

\* What one call of sys_exec or of run came to: Ok(()), an Err(RunError) with the
\* error's variant and its string, or a panic; with the record sys_exec was called
\* on, the vector handed to Command (program first) and whether a child was spawned.
Outcome(kind, err, detail, app, argv, spawned) ==
    [kind |-> kind, err |-> err, detail |-> detail, app |-> app, argv |-> argv,
     spawned |-> spawned]

sys_exec_from_no_dash_e(a, app, term, out, spawn_ok, wait_ok) ==
    IF app.terminal /\ term = None
    THEN Outcome("Err", "NoTerminal", app.name, Some(app), <<>>, FALSE)
    ELSE LET argv == IF app.terminal THEN <<term[1]>> \o a ELSE a
         IN  IF argv = <<>>
             THEN Outcome("Panic", "", <<>>, Some(app), <<>>, FALSE)
             ELSE IF ~spawn_ok
             THEN Outcome("Err", "Exec", <<>>, Some(app), argv, FALSE)
             ELSE IF out /\ ~wait_ok
             THEN Outcome("Err", "Exec", <<>>, Some(app), argv, TRUE)
             ELSE Outcome("Ok", "", <<>>, Some(app), argv, TRUE)

\* sys_exec from its collected args on: the terminal in front, args.remove(0) (which
\* panics on an empty vector), spawn, and the wait when output was asked for.
sys_exec_from(a, app, term, out, spawn_ok, wait_ok) ==
    IF app.terminal /\ term = None
    THEN Outcome("Err", "NoTerminal", app.name, Some(app), <<>>, FALSE)
    ELSE LET argv == IF app.terminal THEN <<term[1], DashE>> \o a ELSE a
         IN  IF argv = <<>>
             THEN Outcome("Panic", "", <<>>, Some(app), <<>>, FALSE)
             ELSE IF ~spawn_ok
             THEN Outcome("Err", "Exec", <<>>, Some(app), argv, FALSE)
             ELSE IF out /\ ~wait_ok
             THEN Outcome("Err", "Exec", <<>>, Some(app), argv, TRUE)
             ELSE Outcome("Ok", "", <<>>, Some(app), argv, TRUE)

\* Spawn::sys_exec.
sys_exec(app, term, out, spawn_ok, wait_ok) ==
    sys_exec_from(sys_exec_args(app.exec), app, term, out, spawn_ok, wait_ok)

\* No application directory can be read.
NoDirs == [user |-> Returned(None), system |-> Returned(None), flatpak |-> Returned(None)]

\* ---------------------------------------------------------------- Installed

UpperLetters == <<"A", "B", "C", "D", "E", "F", "G", "H", "I", "J", "K", "L", "M",
                  "N", "O", "P", "Q", "R", "S", "T", "U", "V", "W", "X", "Y", "Z">>
LowerLetters == <<"a", "b", "c", "d", "e", "f", "g", "h", "i", "j", "k", "l", "m",
                  "n", "o", "p", "q", "r", "s", "t", "u", "v", "w", "x", "y", "z">>

\* str::to_lowercase.
to_lowercase(str) ==
    [i \in 1..Len(str) |->
        IF \E n \in 1..26 : UpperLetters[n] = str[i]
        THEN LowerLetters[CHOOSE n \in 1..26 : UpperLetters[n] = str[i]]
        ELSE str[i]]

\* Installed::to_inis: the records of the files that can be read and decode to
\* one, in the files' order; a panic of decode goes through.
RECURSIVE to_inis(_)
to_inis(apps) ==
    IF apps = <<>> THEN Returned(<<>>)
    ELSE LET first == IF apps[1] = None THEN Returned(None) ELSE decode(apps[1][1])
         IN  IF first.kind = "Panic" THEN Panicked
             ELSE LET rest == to_inis(Tail(apps))
                  IN  IF rest.kind = "Panic" THEN Panicked
                      ELSE Returned(first.val \o rest.val)

\* Installed::read (and user, system, flatpak, which differ in the path only).
read(root) ==
    IF root = None THEN Returned(None)
    ELSE LET inis == to_inis(root[1])
         IN  IF inis.kind = "Panic" THEN Panicked ELSE Returned(Some(inis.val))

\* What Installed::user, system or flatpak can give: read on a directory of the model.
Reads == {read(root) : root \in Roots}

\* Result<Vec<Ini>, RunError> of Installed::all, or its panic.
AllOk(apps) == [kind |-> "Ok", err |-> "", apps |-> apps]
AllErr(e) == [kind |-> "Err", err |-> e, apps |-> <<>>]
AllPanic == [kind |-> "Panic", err |-> "", apps |-> <<>>]

\* Installed::all appending the system records before the flatpak ones.
all_system_first(d) ==
    LET user_apps == d.user
    IN  IF user_apps.kind = "Panic" THEN AllPanic
        ELSE IF user_apps.val = None THEN AllErr("User")
        ELSE LET sys_apps == d.system
             IN  IF sys_apps.kind = "Panic" THEN AllPanic
                 ELSE IF sys_apps.val = None THEN AllErr("System")
                 ELSE LET flatpak_apps == d.flatpak
                      IN  IF flatpak_apps.kind = "Panic" THEN AllPanic
                          ELSE IF flatpak_apps.val = None THEN AllErr("Flatpak")
                          ELSE AllOk(user_apps.val[1] \o sys_apps.val[1]
                                        \o flatpak_apps.val[1])

\* Installed::all returning what it has read when a later root fails.
all_partial(d) ==
    LET user_apps == d.user
    IN  IF user_apps.kind = "Panic" THEN AllPanic
        ELSE IF user_apps.val = None THEN AllErr("User")
        ELSE LET sys_apps == d.system
             IN  IF sys_apps.kind = "Panic" THEN AllPanic
                 ELSE IF sys_apps.val = None THEN AllOk(user_apps.val[1])
                 ELSE LET flatpak_apps == d.flatpak
                      IN  IF flatpak_apps.kind = "Panic" THEN AllPanic
                          ELSE IF flatpak_apps.val = None
                               THEN AllOk(user_apps.val[1] \o sys_apps.val[1])
                          ELSE AllOk(user_apps.val[1] \o flatpak_apps.val[1]
                                        \o sys_apps.val[1])

\* Installed::all reading the flatpak root before the system root.
all_flatpak_checked_first(d) ==
    LET user_apps == d.user
    IN  IF user_apps.kind = "Panic" THEN AllPanic
        ELSE IF user_apps.val = None THEN AllErr("User")
        ELSE LET flatpak_apps == d.flatpak
             IN  IF flatpak_apps.kind = "Panic" THEN AllPanic
                 ELSE IF flatpak_apps.val = None THEN AllErr("Flatpak")
                 ELSE LET sys_apps == d.system
                      IN  IF sys_apps.kind = "Panic" THEN AllPanic
                          ELSE IF sys_apps.val = None THEN AllErr("System")
                          ELSE AllOk(user_apps.val[1] \o flatpak_apps.val[1]
                                        \o sys_apps.val[1])

\* Installed::all on what user(), system() and flatpak() give: they are called in
\* this order, each `?` returning its error; the records are appended user,
\* flatpak, system.
all(d) ==
    LET user_apps == d.user
    IN  IF user_apps.kind = "Panic" THEN AllPanic
        ELSE IF user_apps.val = None THEN AllErr("User")
        ELSE LET sys_apps == d.system
             IN  IF sys_apps.kind = "Panic" THEN AllPanic
                 ELSE IF sys_apps.val = None THEN AllErr("System")
                 ELSE LET flatpak_apps == d.flatpak
                      IN  IF flatpak_apps.kind = "Panic" THEN AllPanic
                          ELSE IF flatpak_apps.val = None THEN AllErr("Flatpak")
                          ELSE AllOk(user_apps.val[1] \o flatpak_apps.val[1]
                                        \o sys_apps.val[1])

\* Spawn::run on the result of Installed.all().
run(name, term, out, spawn_ok, wait_ok, all_apps) ==
    IF all_apps.kind = "Panic"
    THEN Outcome("Panic", "", <<>>, None, <<>>, FALSE)
    ELSE IF all_apps.kind = "Err"
    THEN Outcome("Err", all_apps.err, <<>>, None, <<>>, FALSE)
    ELSE LET found == {i \in 1..Len(all_apps.apps) :
                          to_lowercase(all_apps.apps[i].name) = to_lowercase(name)}
         IN  IF found = {}
             THEN Outcome("Err", "NotFound", name, None, <<>>, FALSE)
             ELSE sys_exec(all_apps.apps[CHOOSE i \in found : \A j \in found : i <= j],
                           term, out, spawn_ok, wait_ok)

\* One closure call of parser's for_each: the name, what Installed.all() gave
\* and what run came to.
Attempt(name, all_apps, oc) == [name |-> name, all |-> all_apps, oc |-> oc]

\* ---------------------------------------------------------------- actions

Init ==
    /\ text \in Texts
    /\ pc = "decode"
    /\ ini_lines = <<>>
    /\ idx = 0
    /\ body = EmptyBody
    /\ curr_act_name = None
    /\ h_acts = EmptyActions
    /\ result = None
    /\ args = <<>>
    /\ spawn_terminal = None
    /\ stdout = FALSE
    /\ launches = <<>>
    /\ dirs = NoDirs
    /\ input = None
    /\ pos = 0

\* decode up to its loop: self.lines()?, then the accumulators.
DecodeStart ==
    /\ pc = "decode"
    /\ LET got == lines(text)
       IN  IF got = None
           THEN /\ pc' = "returned"
                /\ ini_lines' = <<>>
                /\ idx' = idx
           ELSE /\ pc' = "loop"
                /\ ini_lines' = got[1]
                /\ idx' = 1
    /\ body' = EmptyBody
    /\ curr_act_name' = None
    /\ h_acts' = EmptyActions
    /\ result' = None
    /\ UNCHANGED <<text, args>>
    /\ UNCHANGED cliVars

\* One pass of the loop on a line is_action panics on.
LoopIsActionPanic ==
    /\ pc = "loop"
    /\ idx <= Len(ini_lines)
    /\ is_action_panics(ini_lines[idx])
    /\ pc' = "panicked"
    /\ UNCHANGED <<text, ini_lines, idx, body, curr_act_name, h_acts, result, args>>
    /\ UNCHANGED cliVars

\* One pass of the loop on an action header.
LoopActionHeader ==
    /\ pc = "loop"
    /\ idx <= Len(ini_lines)
    /\ ~is_action_panics(ini_lines[idx])
    /\ is_action(ini_lines[idx]) # None
    /\ curr_act_name' = is_action(ini_lines[idx])
    /\ h_acts' = insert_body(h_acts, is_action(ini_lines[idx])[1])
    /\ idx' = idx + 1
    /\ UNCHANGED <<text, pc, ini_lines, body, result, args>>
    /\ UNCHANGED cliVars

\* The pass on a line inside a desktop action, writing the base accumulator too.
LoopActionLine_alias ==
    /\ pc = "loop"
    /\ idx <= Len(ini_lines)
    /\ ~is_action_panics(ini_lines[idx])
    /\ is_action(ini_lines[idx]) = None
    /\ curr_act_name # None
    /\ h_acts' = and_modify(h_acts, curr_act_name[1], ini_lines[idx])
    /\ body' = LET kv == split_once(ini_lines[idx], <<"=">>)
               IN  IF kv = None THEN body ELSE base_field(body, kv[1][1], kv[1][2])
    /\ idx' = idx + 1
    /\ UNCHANGED <<text, pc, ini_lines, curr_act_name, result, args>>
    /\ UNCHANGED cliVars

\* One pass of the loop on a line inside a desktop action.
LoopActionLine ==
    /\ pc = "loop"
    /\ idx <= Len(ini_lines)
    /\ ~is_action_panics(ini_lines[idx])
    /\ is_action(ini_lines[idx]) = None
    /\ curr_act_name # None
    /\ h_acts' = and_modify(h_acts, curr_act_name[1], ini_lines[idx])
    /\ idx' = idx + 1
    /\ UNCHANGED <<text, pc, ini_lines, body, curr_act_name, result, args>>
    /\ UNCHANGED cliVars

\* One pass of the loop on a line of the base section.
LoopBaseLine ==
    /\ pc = "loop"
    /\ idx <= Len(ini_lines)
    /\ ~is_action_panics(ini_lines[idx])
    /\ is_action(ini_lines[idx]) = None
    /\ curr_act_name = None
    /\ LET kv == split_once(ini_lines[idx], <<"=">>)
       IN  IF kv = None
           THEN UNCHANGED <<pc, body>> /\ idx' = idx + 1
           ELSE IF base_returns_none(kv[1][1], kv[1][2])
                THEN pc' = "returned" /\ UNCHANGED <<body, idx>>
                ELSE /\ body' = base_field(body, kv[1][1], kv[1][2])
                     /\ idx' = idx + 1
                     /\ pc' = pc
    /\ UNCHANGED <<text, ini_lines, curr_act_name, h_acts, result, args>>
    /\ UNCHANGED cliVars

\* The end of the loop: self.decode_finished(body, h_acts).
DecodeEnd ==
    /\ pc = "loop"
    /\ idx > Len(ini_lines)
    /\ result' = decode_finished(body, h_acts)
    /\ pc' = "returned"
    /\ UNCHANGED <<text, ini_lines, idx, body, curr_act_name, h_acts, args>>
    /\ UNCHANGED cliVars

\* sys_exec on the decoded record, up to the collected argument vector.
SysExecArgs ==
    /\ pc = "returned"
    /\ result # None
    /\ args' = sys_exec_args(result[1].exec)
    /\ pc' = "args"
    /\ UNCHANGED <<text, ini_lines, idx, body, curr_act_name, h_acts, result>>
    /\ UNCHANGED cliVars

\* The rest of sys_exec on the decoded record, under the environment's terminal
\* and the command line's output flag.
SysExecSpawn ==
    /\ pc = "args"
    /\ \E t \in TerminalEnv, o \in BOOLEAN, spawn_ok \in BOOLEAN, wait_ok \in BOOLEAN :
          LET oc == sys_exec_from(args, result[1], t, o, spawn_ok, wait_ok)
          IN  /\ spawn_terminal' = t
              /\ stdout' = o
              /\ launches' = <<oc>>
              /\ pc' = IF oc.kind = "Panic" THEN "sys_exec_panicked" ELSE "sys_exec_done"
    /\ UNCHANGED <<text, ini_lines, idx, body, curr_act_name, h_acts, result, args>>
    /\ UNCHANGED <<dirs, input, pos>>

Next ==
    \/ DecodeStart
    \/ LoopIsActionPanic
    \/ LoopActionHeader
    \/ LoopActionLine
    \/ LoopBaseLine
    \/ DecodeEnd
    \/ SysExecArgs
    \/ SysExecSpawn

Spec == Init /\ [][Next]_vars

\* The decoder and the argument vector on entries with arbitrary exec strings.
InitArgs ==
    /\ text \in ExecTexts
    /\ pc = "decode"
    /\ ini_lines = <<>>
    /\ idx = 0
    /\ body = EmptyBody
    /\ curr_act_name = None
    /\ h_acts = EmptyActions
    /\ result = None
    /\ args = <<>>
    /\ spawn_terminal = None
    /\ stdout = FALSE
    /\ launches = <<>>
    /\ dirs = NoDirs
    /\ input = None
    /\ pos = 0

NextArgs ==
    \/ DecodeStart
    \/ LoopBaseLine
    \/ DecodeEnd
    \/ SysExecArgs
    \/ SysExecSpawn

SpecArgs == InitArgs /\ [][NextArgs]_vars

\* ---------------------------------------------------------------- cli::parser

\* parser with names to launch: what reading each root gives, the names,
\* TERMINAL and the output flag.
InitRun ==
    /\ text = <<>>
    /\ pc = "parser"
    /\ ini_lines = <<>>
    /\ idx = 0
    /\ body = EmptyBody
    /\ curr_act_name = None
    /\ h_acts = EmptyActions
    /\ result = None
    /\ args = <<>>
    /\ spawn_terminal \in TerminalEnv
    /\ stdout \in BOOLEAN
    /\ launches = <<>>
    /\ dirs \in [user : Reads, system : Reads, flatpak : Reads]
    /\ input \in {Some(b) : b \in Batches}
    /\ pos = 0

\* One call of for_each's closure: Spawn::new(app_name, TERMINAL).run(output); an
\* error is printed, a panic ends the process.
ParserLaunch ==
    /\ pc = "parser"
    /\ pos < Len(input[1])
    /\ LET all_apps == all(dirs)
       IN  \E spawn_ok \in BOOLEAN, wait_ok \in BOOLEAN :
              LET oc == run(input[1][pos + 1], spawn_terminal, stdout, spawn_ok,
                            wait_ok, all_apps)
              IN  /\ launches' = Append(launches,
                                        Attempt(input[1][pos + 1], all_apps, oc))
                  /\ pc' = IF oc.kind = "Panic" THEN "crashed" ELSE pc
    /\ pos' = pos + 1
    /\ UNCHANGED decodeVars
    /\ UNCHANGED <<spawn_terminal, stdout, dirs, input>>

\* parser returns None after the last name.
ParserReturn ==
    /\ pc = "parser"
    /\ pos = Len(input[1])
    /\ pc' = "parser_returned"
    /\ UNCHANGED decodeVars
    /\ UNCHANGED <<spawn_terminal, stdout, launches, dirs, input, pos>>

NextRun ==
    \/ ParserLaunch
    \/ ParserReturn

SpecRun == InitRun /\ [][NextRun]_vars

\* ---------------------------------------------------------------- reading the input

DecodeReturned == pc \in {"returned", "args", "sys_exec_done", "sys_exec_panicked"}

MinOf(S) == CHOOSE x \in S : \A y \in S : x <= y
MaxOf(S) == CHOOSE x \in S : \A y \in S : y <= x

\* s contains pat.
HasSub(s, pat) ==
    \E i \in 1..Len(s) : i + Len(pat) - 1 <= Len(s) /\ SubSeq(s, i, i + Len(pat) - 1) = pat

\* The line is `k=...`.
KeyIs(line, k) ==
    Len(line) > Len(k) /\ SubSeq(line, 1, Len(k)) = k /\ line[Len(k) + 1] = "="

ValAfter(line, k) == SubSeq(line, Len(k) + 2, Len(line))

StartsSection(line) == Len(line) > 0 /\ line[1] = "["

Lower(c) ==
    CASE c = "T" -> "t" [] c = "R" -> "r" [] c = "U" -> "u" [] c = "E" -> "e"
      [] c = "F" -> "f" [] c = "A" -> "a" [] c = "L" -> "l" [] c = "S" -> "s"
      [] OTHER -> c

\* v is a case variant of word.
LowerEq(v, word) == Len(v) = Len(word) /\ \A i \in 1..Len(v) : Lower(v[i]) = word[i]

\* The retained lines that open a section after the first line: a bracketed header,
\* or a line the decoder takes for an action header.
SectionStarts ==
    {i \in 2..Len(ini_lines) :
        StartsSection(ini_lines[i]) \/ HasSub(ini_lines[i], ActionPat)}

\* The base section: the lines between the header and the next section.
BaseEnd == IF SectionStarts = {} THEN Len(ini_lines) + 1 ELSE MinOf(SectionStarts)
BaseIdx == 2..(BaseEnd - 1)

BaseKeyIdx(k) == {i \in BaseIdx : KeyIs(ini_lines[i], k)}

\* The line the loop has just passed.
PrevLine == ini_lines[idx - 1]
Passed == pc = "loop" /\ idx >= 2 /\ idx - 1 <= Len(ini_lines)
AtLine == pc = "loop" /\ idx >= 1 /\ idx <= Len(ini_lines)

\* The accumulator the loop is filling.
Dest == IF curr_act_name = None THEN body ELSE h_acts[curr_act_name[1]]

\* ---------------------------------------------------------------- C1

\* C1: when the base section of an entry holds a Name= line and an Exec= line, no
\* Terminal= line and no NoDisplay= line of value true, decode returns a record with
\* that name, that exec and terminal false (the last line of a key counted, and a
\* line holding `Action ` read as a header, not as a key/value line).
C1_NameExecDecoded ==
    (/\ DecodeReturned
     /\ Len(ini_lines) > 0
     /\ BaseKeyIdx(K_Name) # {}
     /\ BaseKeyIdx(K_Exec) # {}
     /\ BaseKeyIdx(K_Terminal) = {}
     /\ \A i \in BaseKeyIdx(K_NoDisplay) : ~LowerEq(ValAfter(ini_lines[i], K_NoDisplay), S_true))
    => /\ result # None
       /\ result[1].name = ValAfter(ini_lines[MaxOf(BaseKeyIdx(K_Name))], K_Name)
       /\ result[1].exec = ValAfter(ini_lines[MaxOf(BaseKeyIdx(K_Exec))], K_Exec)
       /\ result[1].terminal = FALSE

\* ---------------------------------------------------------------- C2

\* C2: decode never panics, whatever the text.
C2_DecodeTotal == pc # "panicked"

\* ---------------------------------------------------------------- C3

NoDisplayIdx == {i \in BaseIdx : ini_lines[i] \in {L_NoDisplayTrue, L_NoDisplayCap}}

\* C3: with a line NoDisplay=true or NoDisplay=True in the base section, decode stops
\* at the first such line and returns None, never a record and never a panic,
\* whatever the lines before and after it.
C3_NoDisplaySuppresses ==
    NoDisplayIdx # {} =>
        /\ pc \in {"loop", "returned"}
        /\ idx <= MinOf(NoDisplayIdx)
        /\ result = None
        /\ pc = "returned" => idx = MinOf(NoDisplayIdx)

C3_Witness ==
    /\ pc = "returned"
    /\ NoDisplayIdx # {}
    /\ body.name # None
    /\ body.exec # None
    /\ \E j \in BaseKeyIdx(K_Name) : j > MinOf(NoDisplayIdx)
    /\ result = None

\* ---------------------------------------------------------------- C4

\* C4: a Terminal= line, in the base or in an action section, sets terminal to true
\* for every case variant of true and to false for every case variant of false, and
\* a base-section NoDisplay= line of any case variant of true ends the decode.
C4_BoolCaseInsensitive ==
    (Passed /\ ~HasSub(PrevLine, ActionPat)) =>
        /\ KeyIs(PrevLine, K_Terminal) =>
              /\ LowerEq(ValAfter(PrevLine, K_Terminal), S_true) => Dest.terminal = Some(TRUE)
              /\ LowerEq(ValAfter(PrevLine, K_Terminal), S_false) => Dest.terminal = Some(FALSE)
        /\ (idx - 1) \in BaseKeyIdx(K_NoDisplay) =>
              ~LowerEq(ValAfter(PrevLine, K_NoDisplay), S_true)

\* ---------------------------------------------------------------- C5

\* The line at i lies under an unrecognized section header that follows a base
\* section of plain lines.
UnderUnrecognized(i) ==
    \E u \in 2..(i - 1) :
        /\ StartsSection(ini_lines[u])
        /\ ini_lines[u] # header
        /\ \A j \in 2..i : ~HasSub(ini_lines[j], ActionPat)
        /\ \A j \in (2..i) \ {u} : ~StartsSection(ini_lines[j])

\* C5: a line under an unrecognized section changes neither the base accumulator nor
\* the actions, and does not end the decode.
C5_UnrecognizedSectionInert ==
    [][(AtLine /\ UnderUnrecognized(idx))
          => (body' = body /\ h_acts' = h_acts /\ pc' = "loop")]_vars

\* ---------------------------------------------------------------- C6

\* C6: inside a desktop action a key/value line changes only the accumulator of the
\* current action, to the line's value, and leaves the base accumulator alone; a
\* base-section line changes no action; a header changes no base field; the record
\* returned carries the base accumulator's fields.
C6_ActionFrame ==
    /\ [][(AtLine /\ curr_act_name # None /\ ~HasSub(ini_lines[idx], ActionPat)) =>
            /\ body' = body
            /\ curr_act_name' = curr_act_name
            /\ DOMAIN h_acts' = DOMAIN h_acts
            /\ \A k \in DOMAIN h_acts : k # curr_act_name[1] => h_acts'[k] = h_acts[k]
            /\ KeyIs(ini_lines[idx], K_Name) =>
                  h_acts'[curr_act_name[1]].name = Some(ValAfter(ini_lines[idx], K_Name))
            /\ KeyIs(ini_lines[idx], K_Exec) =>
                  h_acts'[curr_act_name[1]].exec = Some(ValAfter(ini_lines[idx], K_Exec))
            /\ KeyIs(ini_lines[idx], K_Terminal) =>
                  h_acts'[curr_act_name[1]].terminal # None]_vars
    /\ [][(AtLine /\ curr_act_name = None /\ ~HasSub(ini_lines[idx], ActionPat)) =>
            h_acts' = h_acts]_vars
    /\ [][(AtLine /\ HasSub(ini_lines[idx], ActionPat)) => body' = body]_vars
    /\ [][(pc = "loop" /\ result' # None) =>
            /\ body.name = Some(result'[1].name)
            /\ body.exec = Some(result'[1].exec)
            /\ body.terminal \in {None, Some(result'[1].terminal)}
            /\ result'[1].actions = h_acts]_vars

C6_Witness ==
    /\ DecodeReturned
    /\ result # None
    /\ \E k \in DOMAIN result[1].actions :
          /\ result[1].actions[k].name # None
          /\ result[1].actions[k].name # Some(result[1].name)
          /\ result[1].actions[k].exec = None

\* ---------------------------------------------------------------- C7

\* C7: a record is returned only when the base section holds a Name= line and an
\* Exec= line.
C7_RecordNeedsBaseNameExec ==
    result # None => BaseKeyIdx(K_Name) # {} /\ BaseKeyIdx(K_Exec) # {}

\* ---------------------------------------------------------------- C8

LineStarts == {1} \cup {i + 1 : i \in {j \in 1..Len(text) : text[j] = NL}}
RetainedStarts == {s \in LineStarts : s > Len(text) \/ text[s] # "#"}

\* The first line of the text that is no comment is exactly the header.
FirstRetainedIsHeader ==
    /\ RetainedStarts # {}
    /\ LET s == MinOf(RetainedStarts)
           e == s + Len(header)
       IN  /\ e - 1 <= Len(text)
           /\ SubSeq(text, s, e - 1) = header
           /\ (e > Len(text) \/ text[e] = NL)

\* C8: when the first retained line is not exactly the header, decode returns None
\* before it reads any line, and nothing is launched.
C8_HeaderRequired ==
    ~FirstRetainedIsHeader =>
        /\ pc \in {"decode", "returned"}
        /\ result = None
        /\ args = <<>>

C8_Witness ==
    /\ pc = "returned"
    /\ ~FirstRetainedIsHeader
    /\ HasSub(text, <<NL>> \o header \o <<NL>>)
    /\ HasSub(text, L_NameA)
    /\ HasSub(text, L_ExecE)

\* ---------------------------------------------------------------- C9

Garbage(v) == ~LowerEq(v, S_true) /\ ~LowerEq(v, S_false)

\* C9: a Terminal= line whose value spells neither true nor false leaves terminal
\* false in the accumulator it belongs to; decode neither returns nor panics at a
\* Terminal= line; and at the end of the lines a record with the accumulated
\* terminal is returned when Name and Exec were set.
C9_GarbageTerminalIsFalse ==
    /\ (/\ Passed
        /\ ~HasSub(PrevLine, ActionPat)
        /\ KeyIs(PrevLine, K_Terminal)
        /\ Garbage(ValAfter(PrevLine, K_Terminal)))
       => Dest.terminal = Some(FALSE)
    /\ (pc # "loop" /\ idx >= 1 /\ idx <= Len(ini_lines) /\ KeyIs(ini_lines[idx], K_Terminal))
       => HasSub(ini_lines[idx], ActionPat)
    /\ (DecodeReturned /\ idx > Len(ini_lines) /\ body.name # None /\ body.exec # None)
       => /\ result # None
          /\ body.terminal \in {None, Some(result[1].terminal)}
          /\ body.terminal = None => result[1].terminal = FALSE

C9_Witness ==
    /\ DecodeReturned
    /\ result # None
    /\ result[1].terminal = FALSE
    /\ \E i, j \in BaseIdx :
          /\ i < j
          /\ ini_lines[i] = L_TermTrue
          /\ ini_lines[j] = L_TermGarbage
          /\ \A k \in BaseKeyIdx(K_Terminal) : k <= j

\* ---------------------------------------------------------------- C10

\* The maximal runs of non-whitespace characters of s, as <<first, last>>.
Runs(s) ==
    {r \in (1..Len(s)) \X (1..Len(s)) :
        /\ r[1] <= r[2]
        /\ \A k \in r[1]..r[2] : s[k] \notin Whitespace
        /\ (r[1] = 1 \/ s[r[1] - 1] \in Whitespace)
        /\ (r[2] = Len(s) \/ s[r[2] + 1] \in Whitespace)}

KeptRuns(s) == {r \in Runs(s) : SubSeq(s, r[1], r[2]) \notin Placeholders}

\* C10: the argument vector holds exactly the whitespace-separated tokens of exec
\* that are no field code, in their order; `firefox %u --private` gives
\* [firefox, --private].
C10_ArgsAreFilteredTokens ==
    pc = "args" =>
        LET exec == result[1].exec
        IN  /\ Len(args) = Cardinality(KeptRuns(exec))
            /\ \A r \in KeptRuns(exec) :
                  args[Cardinality({q \in KeptRuns(exec) : q[1] < r[1]}) + 1]
                      = SubSeq(exec, r[1], r[2])
            /\ exec = ValAfter(L_ExecFirefox, K_Exec) =>
                  args = << <<"f", "i", "r", "e", "f", "o", "x">>,
                            <<"-", "-", "p", "r", "i", "v", "a", "t", "e">> >>

C10_Witness ==
    /\ pc = "args"
    /\ Len(args) >= 2
    /\ Cardinality(Runs(result[1].exec)) > Cardinality(KeptRuns(result[1].exec))
    /\ \E i \in 1..Len(args) : args[i][1] = "%"

\* ---------------------------------------------------------------- C11

\* The tokens of exec that are no field code, as a sequence in their order.
KeptTokens(s) ==
    [i \in 1..Cardinality(KeptRuns(s)) |->
        LET r == CHOOSE q \in KeptRuns(s) :
                    Cardinality({o \in KeptRuns(s) : o[1] < q[1]}) = i - 1
        IN  SubSeq(s, r[1], r[2])]

SysExecOver == pc \in {"sys_exec_done", "sys_exec_panicked"}

\* C11: for a record whose terminal flag is true, sys_exec with a terminal T
\* configured hands over [T, "-e"] followed by the filtered tokens; with no
\* terminal configured it returns the NoTerminal error naming the application and
\* spawns nothing; for a record whose terminal flag is false nothing is prepended.
C11_TerminalWrapping ==
    SysExecOver =>
        LET app  == result[1]
            oc   == launches[1]
            toks == KeptTokens(app.exec)
        IN  /\ (app.terminal /\ spawn_terminal # None) =>
                  /\ oc.kind \in {"Ok", "Err"}
                  /\ oc.argv = <<spawn_terminal[1], <<"-", "e">> >> \o toks
            /\ (app.terminal /\ spawn_terminal = None) =>
                  /\ oc.kind = "Err"
                  /\ oc.err = "NoTerminal"
                  /\ oc.detail = app.name
                  /\ ~oc.spawned
                  /\ oc.argv = <<>>
            /\ (~app.terminal /\ oc.kind # "Panic") => oc.argv = toks

C11_Witness ==
    /\ pc = "sys_exec_done"
    /\ result[1].terminal
    /\ spawn_terminal = Some(<<"k", "i", "t", "t", "y">>)
    /\ launches[1].kind = "Ok"
    /\ Len(launches[1].argv) = 3

\* ---------------------------------------------------------------- C16

\* C16: launching a decoded record either hands the operating system a non-empty
\* argument vector or returns a RunError; an exec that is empty or holds only
\* field codes, with the terminal flag false, does not crash the launcher.
C16_LaunchNeverCrashes ==
    SysExecOver =>
        \/ launches[1].kind = "Err"
        \/ launches[1].kind = "Ok" /\ launches[1].argv # <<>>

\* ---------------------------------------------------------------- C15

ActionWord == <<"A", "c", "t", "i", "o", "n", " ">>

\* The text after the first `Action ` of the line, without its last character.
HeaderId(line) ==
    LET at == MinOf({i \in 1..Len(line) :
                        /\ i + 6 <= Len(line)
                        /\ SubSeq(line, i, i + 6) = ActionWord})
    IN  SubSeq(line, at + 7, Len(line) - 1)

IsHeaderLine(i) == HasSub(ini_lines[i], ActionWord)

\* Line i is a header for the identifier that the header at line j opened, with
\* no header in between.
Reopened(j, i) ==
    /\ j < i
    /\ IsHeaderLine(j)
    /\ IsHeaderLine(i)
    /\ HeaderId(ini_lines[j]) = HeaderId(ini_lines[i])
    /\ \A n \in (j + 1)..(i - 1) : ~IsHeaderLine(n)

\* C15: a second header for an identifier that already has an accumulator keeps
\* that accumulator: the name, exec and terminal collected for the action before
\* the second header are in the actions mapping of the record returned.
C15_RepeatedHeaderKeeps ==
    (DecodeReturned /\ result # None) =>
        \A i \in 1..Len(ini_lines) : \A j \in 1..(i - 1) :
            Reopened(j, i) =>
                LET a == HeaderId(ini_lines[i])
                IN  /\ a \in DOMAIN result[1].actions
                    /\ \A n \in (j + 1)..(i - 1) :
                          /\ KeyIs(ini_lines[n], K_Name) =>
                                result[1].actions[a].name # None
                          /\ KeyIs(ini_lines[n], K_Exec) =>
                                result[1].actions[a].exec # None
                          /\ KeyIs(ini_lines[n], K_Terminal) =>
                                result[1].actions[a].terminal # None

\* ---------------------------------------------------------------- C17

\* C17: every retained line that contains `Action ` is taken as an action header
\* whose identifier is the text after the first `Action ` without its last
\* character; the line gives no key/value, the lines after it go to that action,
\* and `[Desktop Action a]` gives the identifier a.
C17_SubstringHeaders ==
    /\ (Passed /\ HasSub(PrevLine, ActionWord)) =>
          LET id == HeaderId(PrevLine)
          IN  /\ curr_act_name = <<id>>
              /\ id \in DOMAIN h_acts
              /\ KeyIs(PrevLine, K_Name) =>
                    /\ body.name # <<ValAfter(PrevLine, K_Name)>>
                    /\ h_acts[id].name # <<ValAfter(PrevLine, K_Name)>>
    /\ (Passed /\ PrevLine = <<"[", "D", "e", "s", "k", "t", "o", "p", " ",
                               "A", "c", "t", "i", "o", "n", " ", "a", "]">>) =>
          curr_act_name = << <<"a">> >>
    /\ (pc = "panicked" /\ idx \in 1..Len(ini_lines)) =>
          ~HasSub(ini_lines[idx], ActionWord)

\* ---------------------------------------------------------------- C18

\* The identifiers opened by the header lines.
OpenedIds == {HeaderId(ini_lines[i]) : i \in {n \in 1..Len(ini_lines) : IsHeaderLine(n)}}

\* The lines of the sections of action a: after a header of a, before the next header.
LinesOf(a) ==
    {n \in 1..Len(ini_lines) :
        /\ ~IsHeaderLine(n)
        /\ \E j \in 1..(n - 1) :
              /\ IsHeaderLine(j)
              /\ HeaderId(ini_lines[j]) = a
              /\ \A m \in (j + 1)..(n - 1) : ~IsHeaderLine(m)}

\* C18: the actions mapping of a returned record has exactly the identifiers that
\* header lines opened, and an action with no Name, no Exec or no Terminal line
\* is in it with that field absent.
C18_EveryOpenedActionKept ==
    (DecodeReturned /\ result # None) =>
        /\ DOMAIN result[1].actions = OpenedIds
        /\ \A a \in OpenedIds :
              /\ (\A n \in LinesOf(a) : ~KeyIs(ini_lines[n], K_Name)) =>
                    result[1].actions[a].name = <<>>
              /\ (\A n \in LinesOf(a) : ~KeyIs(ini_lines[n], K_Exec)) =>
                    result[1].actions[a].exec = <<>>
              /\ (\A n \in LinesOf(a) : ~KeyIs(ini_lines[n], K_Terminal)) =>
                    result[1].actions[a].terminal = <<>>

C18_Witness ==
    /\ pc = "returned"
    /\ result # None
    /\ Cardinality(DOMAIN result[1].actions) = 2
    /\ \E a \in DOMAIN result[1].actions :
          result[1].actions[a] = [name |-> <<>>, exec |-> <<>>, terminal |-> <<>>]
    /\ \E a \in DOMAIN result[1].actions : result[1].actions[a].name # <<>>

\* ---------------------------------------------------------------- C12

\* The two strings are equal when letter case is ignored.
SameName(a, b) == Len(a) = Len(b) /\ \A i \in 1..Len(a) : Lower(a[i]) = Lower(b[i])

\* Every root was read and no entry file made the decoder panic.
SourcesRead ==
    \A r \in {dirs.user, dirs.system, dirs.flatpak} : r.kind = "Ok" /\ r.val # <<>>

\* The records in the priority order: user, then flatpak, then system.
Aggregate == dirs.user.val[1] \o dirs.flatpak.val[1] \o dirs.system.val[1]

Matches(name) == {i \in 1..Len(Aggregate) : SameName(Aggregate[i].name, name)}

\* C12: the record launched for a name is the first one, in the order user,
\* flatpak, system, whose name equals the requested name ignoring letter case; a
\* later record of that name is never the one launched.
C12_FirstMatchLaunched ==
    \A n \in 1..Len(launches) :
        (SourcesRead /\ Matches(launches[n].name) # {}) =>
            launches[n].oc.app = <<Aggregate[MinOf(Matches(launches[n].name))]>>

C12_Witness ==
    /\ SourcesRead
    /\ dirs.user.val[1] = <<>>
    /\ Len(dirs.flatpak.val[1]) = 1
    /\ Len(dirs.system.val[1]) = 2
    /\ Len(launches) = 2
    /\ launches[2].name = <<"S", "u", "R", "f">>
    /\ launches[2].oc.kind = "Ok"
    /\ launches[2].oc.app[1].name = <<"s", "u", "r", "f">>
    /\ launches[2].oc.app[1].exec = <<"g">>
    /\ Cardinality(Matches(launches[2].name)) = 2

\* ---------------------------------------------------------------- C13

\* The roots that could not be read, by the name of their error.
FailedSources ==
    {e \in {"User", "System", "Flatpak"} :
        \/ e = "User" /\ dirs.user.val = <<>>
        \/ e = "System" /\ dirs.system.val = <<>>
        \/ e = "Flatpak" /\ dirs.flatpak.val = <<>>}

\* C13: when Installed::all returns, it returns a record list only if every root
\* was read, and then the whole aggregate; if a root failed it returns the error
\* of a failed source (user read and system failing: the system error) and no
\* record of the roots that were read.
C13_AllOrSourceError ==
    \A n \in 1..Len(launches) :
        LET a == launches[n].all
        IN  /\ a.kind = "Ok" => (FailedSources = {} /\ a.apps = Aggregate)
            /\ (a.kind # "Panic" /\ FailedSources # {}) =>
                  /\ a.kind = "Err"
                  /\ a.err \in FailedSources
                  /\ a.apps = <<>>
            /\ (a.kind # "Panic" /\ dirs.user.val # <<>> /\ dirs.system.val = <<>>) =>
                  a.err = "System"

C13_Witness ==
    /\ Len(launches) >= 1
    /\ dirs.user.val # <<>>
    /\ Len(dirs.user.val[1]) = 1
    /\ dirs.system.val = <<>>
    /\ dirs.flatpak.val # <<>>
    /\ launches[1].all.kind = "Err"
    /\ launches[1].all.err = "System"

\* ---------------------------------------------------------------- C19

\* C19: when a root cannot be read, Spawn::run, if it returns, launches nothing
\* and returns the error of the first unreadable root in the order user, system,
\* flatpak, also when the name is that of a record in a root that was read.
C19_RunNeedsEverySource ==
    \A n \in 1..Len(launches) :
        LET oc == launches[n].oc
        IN  (oc.kind # "Panic" /\ FailedSources # {}) =>
                /\ oc.kind = "Err"
                /\ oc.err = (IF "User" \in FailedSources THEN "User"
                             ELSE IF "System" \in FailedSources THEN "System"
                             ELSE "Flatpak")
                /\ ~oc.spawned
                /\ oc.app = <<>>
                /\ oc.argv = <<>>

C19_Witness ==
    /\ Len(launches) >= 1
    /\ launches[1].name = <<"s", "u", "r", "f">>
    /\ dirs.user.val # <<>>
    /\ Len(dirs.user.val[1]) = 1
    /\ SameName(dirs.user.val[1][1].name, launches[1].name)
    /\ dirs.system.val = <<>>
    /\ dirs.flatpak.val = <<>>
    /\ launches[1].oc.kind = "Err"
    /\ launches[1].oc.err = "System"

\* ---------------------------------------------------------------- C14

BatchOver == pc \in {"parser_returned", "crashed"}

\* C14: when the batch is over every requested name has been attempted, in the
\* order given; a name no record matches got the not-found error for that name;
\* no failure of a name kept a later name from being attempted.
C14_EveryNameAttempted ==
    BatchOver =>
        /\ Len(launches) = Len(input[1])
        /\ \A n \in 1..Len(launches) :
              /\ launches[n].name = input[1][n]
              /\ (SourcesRead /\ Matches(launches[n].name) = {}) =>
                    /\ launches[n].oc.kind = "Err"
                    /\ launches[n].oc.err = "NotFound"
                    /\ launches[n].oc.detail = launches[n].name

====
